---- MODULE Spec2Model ----
(***************************************************************************)
(* The grid-search and model-selection harness of recommender.py:          *)
(* search_best_model (trial dispatch and best-result reduction), the two   *)
(* persisted artifacts, and the two-stage pipeline generate_recommenders.  *)
(***************************************************************************)
EXTENDS Integers, Sequences, FiniteSets, TLC

VARIABLES
    fs,          \* the file system: path -> content
    conf,        \* config.Configuration with the constants.* grids it indexes
    ground_truth_model_path,      \* ground_truth_model_path argument of generate_recommenders
    retrievable, \* dataset in datasets.DATASETS_RETRIEVE_MAP
    model,       \* behaviour of the model class: which values raise, how it scores
    pc,          \* position inside generate_recommenders
    calls,       \* number of calls of generate_recommenders started so far
    ground_truth_model,     \* ground_truth_model local
    idx,         \* position of the `for factor in factors` loop
    best_dict,        \* best_dict local
    err,         \* exception that ended the current call
    trace,       \* stage-machine states the current call went through
    trials,      \* trials started by the current call
    writes,      \* paths the current call has written to, wholly or in part
    atStart,     \* what the current call found when it started
    completed,   \* a call has run stage 2 to completion with >= 1 factor
    sq           \* one search_best_model call, trial by trial

vars == <<fs, conf, ground_truth_model_path, retrievable, model, pc, calls, ground_truth_model, idx, best_dict,
          err, trace, trials, writes, atStart, completed, sq>>

pipeVars == <<fs, ground_truth_model_path, retrievable, pc, calls, ground_truth_model, idx, best_dict,
              err, trace, trials, writes, atStart, completed>>

----------------------------------------------------------------------------
(* Bounds.                                                                 *)

MaxCalls == 2
MaxStale == 3
MaxFactors == 2
MaxReg == 2
MaxConfigs == 3
MaxMetric == 2
MaxCpu == 2

----------------------------------------------------------------------------
(* Python values: sequences, ordered dicts, str().                         *)

Min(a, b) == IF a < b THEN a ELSE b

RECURSIVE ConcatAll(_)
ConcatAll(ss) == IF ss = <<>> THEN <<>> ELSE Head(ss) \o ConcatAll(Tail(ss))

\* zip(*vs) in place of the product: the k-th candidates of every key.
RECURSIVE ProductZipped(_)
ProductZipped(vs) ==
    IF vs = <<>> THEN <<>>
    ELSE IF Len(vs) = 1 THEN [a \in 1..Len(vs[1]) |-> <<vs[1][a]>>]
    ELSE LET rest == ProductZipped(Tail(vs))
         IN [a \in 1..Min(Len(Head(vs)), Len(rest)) |-> <<Head(vs)[a]>> \o rest[a]]

\* itertools.product(*vs): nested-loop order, the last sequence varies fastest;
\* the product of no sequences is the single empty tuple.
RECURSIVE Product(_)
Product(vs) ==
    IF vs = <<>> THEN << <<>> >>
    ELSE LET h == Head(vs)
             rest == Product(Tail(vs))
         IN ConcatAll([a \in 1..Len(h) |->
                          [r \in 1..Len(rest) |-> <<h[a]>> \o rest[r]]])

\* An ordered dict is a sequence of <<key, value>> pairs with distinct keys.
Keys(d) == [k \in 1..Len(d) |-> d[k][1]]
Values(d) == [k \in 1..Len(d) |-> d[k][2]]
HasKey(d, key) == \E k \in 1..Len(d) : d[k][1] = key
Get(d, key) == d[CHOOSE k \in 1..Len(d) : d[k][1] = key][2]

\* dict(zip(names, values)): zip stops at the shorter argument.
DictZip(names, values) ==
    [k \in 1..Min(Len(names), Len(values)) |-> <<names[k], values[k]>>]

Digit(d) ==
    CASE d = 0 -> "0" [] d = 1 -> "1" [] d = 2 -> "2" [] d = 3 -> "3"
      [] d = 4 -> "4" [] d = 5 -> "5" [] d = 6 -> "6" [] d = 7 -> "7"
      [] d = 8 -> "8" [] d = 9 -> "9"

\* str(n) of a non-negative int.
RECURSIVE IntToStr(_)
IntToStr(n) == IF n < 10 THEN Digit(n) ELSE IntToStr(n \div 10) \o Digit(n % 10)

----------------------------------------------------------------------------
(* Values held by grids, hyperparameter dicts and info dicts, and their    *)
(* str().  A line is written as a sequence of chunks, one per field and    *)
(* one per separator; it is read back as the string of all its characters *)
(* and split at every comma, wherever the comma came from.                 *)

IntV(n) == [t |-> "int", v |-> n]
StrV(s) == [t |-> "str", s |-> s]
ClassV(c) == [t |-> "class", c |-> c]
NoneV == [t |-> "none"]
TupV(a, b) == [t |-> "tuple", a |-> a, b |-> b]

Str(x) ==
    CASE x.t = "int" -> <<IntToStr(x.v)>>
      [] x.t = "str" -> <<x.s>>
      [] x.t = "class" -> <<"<class '" \o x.c \o "'>">>
      [] x.t = "none" -> <<"None">>
      [] x.t = "tuple" -> <<"(" \o IntToStr(x.a) \o ", " \o IntToStr(x.b) \o ")">>

RECURSIVE Flat(_)
Flat(text) == IF text = <<>> THEN "" ELSE Head(text) \o Flat(Tail(text))

\* The fields joined with a blank in place of the comma.
RECURSIVE JoinSpaced(_)
JoinSpaced(texts) ==
    IF texts = <<>> THEN <<>>
    ELSE IF Len(texts) = 1 THEN texts[1]
    ELSE texts[1] \o <<" ">> \o JoinSpaced(Tail(texts))

\* sep.join(texts)
RECURSIVE Join(_)
Join(texts) ==
    IF texts = <<>> THEN <<>>
    ELSE IF Len(texts) = 1 THEN texts[1]
    ELSE texts[1] \o <<",">> \o Join(Tail(texts))

\* s.split(","): the string cut at each of its commas, always at least one
\* field.
RECURSIVE SplitText(_)
SplitText(s) ==
    IF \A k \in 1..Len(s) : SubSeq(s, k, k) # "," THEN <<s>>
    ELSE LET c == CHOOSE k \in 1..Len(s) :
                      SubSeq(s, k, k) = "," /\ \A j \in 1..(k - 1) : SubSeq(s, j, j) # ","
         IN <<SubSeq(s, 1, c - 1)>> \o SplitText(SubSeq(s, c + 1, Len(s)))

\* line.split(",") of a line of the file: the fields as strings.
Split(line) == SplitText(Flat(line))

----------------------------------------------------------------------------
(* The model capability contract (recommender_models): construction,      *)
(* train and validate of a deterministic model.                            *)

MetricNames == <<"ndcg", "hr">>

\* The name tuples validate may use: the usual pair, and a pair whose second
\* metric is called like a key search_best_model adds to the info mapping.
MetricNameSets == {MetricNames, <<"ndcg", "used">>}

RECURSIVE SumValues(_)
SumValues(hp) ==
    IF hp = <<>> THEN 0
    ELSE (IF Head(hp)[2].t = "int" THEN Head(hp)[2].v ELSE 0) + SumValues(Tail(hp))

\* model_class(**hp); model.train(train); model.validate(...) raise for a
\* configuration that holds the value the model rejects.
Raises(hp) == \E k \in 1..Len(hp) : hp[k][2] = model.bad

Score(hp) ==
    CASE model.sel = "table" -> model.table[Values(hp)]
      [] model.sel = "sum" -> SumValues(hp) % 5
      [] model.sel = "flat" -> 1

\* model.validate(train, valid, k) -> {metric name: value}
Validate(hp) ==
    << <<model.names[1], IntV(Score(hp))>>, <<model.names[2], IntV(SumValues(hp) % 2)>> >>

\* The trained instance: its class and the keyword arguments it was built with.
Model(class, hp) == [class |-> class, hp |-> hp]

----------------------------------------------------------------------------
(* train_eval_one_configuration and the reduction of search_best_model.    *)

train_eval_one_configuration(hpTuple, names, class) ==
    LET hp == DictZip(names, hpTuple)
    IN [raised |-> Raises(hp),
        metrics |-> Validate(hp),
        hp |-> hp,
        model |-> Model(class, hp)]

KeyOf(el) == Get(el.metrics, conf.recommender_evaluation_metric).v

\* The reduction with the comparison reversed.
RECURSIVE MaxIndexReversed(_, _)
MaxIndexReversed(res, n) ==
    IF n = 1 THEN 1
    ELSE LET b == MaxIndexReversed(res, n - 1)
         IN IF KeyOf(res[n]) < KeyOf(res[b]) THEN n ELSE b

\* The reduction that compares each element with its predecessor, not with
\* the best so far.
RECURSIVE MaxIndexPrevious(_, _)
MaxIndexPrevious(res, n) ==
    IF n = 1 THEN 1
    ELSE LET b == MaxIndexPrevious(res, n - 1)
         IN IF KeyOf(res[n]) > KeyOf(res[n - 1]) THEN n ELSE b

\* The reduction that lets a later element of equal key take over.
RECURSIVE MaxIndexLastTie(_, _)
MaxIndexLastTie(res, n) ==
    IF n = 1 THEN 1
    ELSE LET b == MaxIndexLastTie(res, n - 1)
         IN IF KeyOf(res[n]) >= KeyOf(res[b]) THEN n ELSE b

\* max(res, key=...): the first element whose key no later element exceeds.
RECURSIVE MaxIndex(_, _)
MaxIndex(res, n) ==
    IF n = 1 THEN 1
    ELSE LET b == MaxIndex(res, n - 1)
         IN IF KeyOf(res[n]) > KeyOf(res[b]) THEN n ELSE b

PyMax(res) == res[MaxIndex(res, Len(res))]

\* The dict returned by search_best_model.
\* d[key] = value in a dict literal: a key already present keeps its
\* position and takes the new value, a new key goes last.
Update(d, key, value) ==
    IF HasKey(d, key)
    THEN [k \in 1..Len(d) |-> IF d[k][1] = key THEN <<key, value>> ELSE d[k]]
    ELSE Append(d, <<key, value>>)

BestDict(el) ==
    [model |-> el.model,
     hparams |-> el.hp,
     info |-> Update(Update(Update(el.metrics,
                  "model", ClassV(el.model.class)),
                  "used", StrV(conf.recommender_evaluation_metric)),
                  "seed_start", IntV(conf.seed_start))]

NoBest == [model |-> NoneV, hparams |-> <<>>, info |-> <<>>]

\* n_procs = min(len(hparams_flat), mp.cpu_count())
NProcs(n) == Min(n, conf.cpu)

\* The calls of a trial with validate ahead of train.
TrialCallsValidateFirst == <<"validate", "train">>

\* The calls a trial makes on the model it has constructed, in order.
TrialCalls == <<"train", "validate">>

\* A search that isolates its trials: one that raises is dropped and the
\* best of the others is returned.
search_best_model_isolating(names, flat, class) ==
    LET n == Len(flat)
        all == [k \in 1..n |-> train_eval_one_configuration(flat[k], names, class)]
        res == SelectSeq(all, LAMBDA el : ~el.raised)
    IN IF conf.parallel /\ NProcs(n) < 1
         THEN [err |-> "ValueError", best_dict |-> NoBest]
       ELSE IF res = <<>>
         THEN [err |-> "ValueError", best_dict |-> NoBest]
       ELSE [err |-> "none", best_dict |-> BestDict(PyMax(res))]

\* search_best_model as its caller sees it: the exception raised, if any,
\* and the returned dict.
search_best_model(names, flat, class) ==
    LET n == Len(flat)
        res == [k \in 1..n |-> train_eval_one_configuration(flat[k], names, class)]
    IN IF conf.parallel /\ NProcs(n) < 1
         THEN [err |-> "ValueError", best_dict |-> NoBest]
       ELSE IF \E k \in 1..n : res[k].raised
         THEN [err |-> "TrialFailure", best_dict |-> NoBest]
       ELSE IF n = 0
         THEN [err |-> "ValueError", best_dict |-> NoBest]
       ELSE [err |-> "none", best_dict |-> BestDict(PyMax(res))]

\* The number of consecutive tasks starmap hands to a worker at once:
\* chunksize, extra = divmod(len(iterable), 4 * processes), one more if extra.
ChunkSize(n, nprocs) ==
    IF n % (4 * nprocs) = 0 THEN n \div (4 * nprocs) ELSE n \div (4 * nprocs) + 1

\* The sets of trials one search_best_model call may have started, as
\* index sets: every trial when none raises; sequentially the trials up to
\* the first that raises; in the pool every trial but those that follow one
\* that raises in the same chunk, starmap raising only once all chunks are
\* back.
StartedSets(names, flat, class) ==
    LET n == Len(flat)
        res == [k \in 1..n |-> train_eval_one_configuration(flat[k], names, class)]
        badIdx == {k \in 1..n : res[k].raised}
        c == ChunkSize(n, NProcs(n))
    IN IF badIdx = {} THEN {1..n}
       ELSE IF conf.parallel
         THEN {{k \in 1..n : \A b \in badIdx :
                   ~(b < k /\ (b - 1) \div c = (k - 1) \div c)}}
       ELSE {1..(CHOOSE k \in badIdx : \A j \in badIdx : k <= j)}

RECURSIVE SeqOfSet(_)
SeqOfSet(S) ==
    IF S = {} THEN <<>>
    ELSE LET m == CHOOSE k \in S : \A j \in S : k <= j
         IN <<m>> \o SeqOfSet(S \ {m})

\* save_hyperparams_and_metrics: the two lines written to the file.
save_hyperparams_and_metrics(hparams, info) ==
    [kind |-> "hparams",
     header |-> Join([k \in 1..(Len(hparams) + Len(info)) |->
                        <<(Keys(hparams) \o Keys(info))[k]>>]),
     content |-> Join([k \in 1..(Len(hparams) + Len(info)) |->
                        Str((Values(hparams) \o Values(info))[k])])]

\* The number of bytes of a line given as its chunks.
RECURSIVE Bytes(_)
Bytes(chunks) ==
    IF chunks = <<>> THEN 0 ELSE Len(chunks[1]) + Bytes(Tail(chunks))

\* The first n bytes of a line given as its chunks; the chunk the cut falls
\* in is kept up to the cut.
RECURSIVE CutChunks(_, _)
CutChunks(chunks, n) ==
    IF n = 0 \/ chunks = <<>> THEN <<>>
    ELSE IF Len(chunks[1]) <= n
      THEN <<chunks[1]>> \o CutChunks(Tail(chunks), n - Len(chunks[1]))
    ELSE <<SubSeq(chunks[1], 1, n)>>

\* The first n bytes of header + "\n" + content + "\n".
CutFile(file, n) ==
    [file EXCEPT !.header = CutChunks(@, n),
                 !.content = IF n > Bytes(file.header) + 1
                             THEN CutChunks(@, n - Bytes(file.header) - 1)
                             ELSE <<>>]

\* What a write that fails once open(filename, "w") has succeeded leaves
\* under the name: any prefix of the buffered text, from the empty file to
\* the whole text (when it is the closing of the file that fails).
Truncations(file) ==
    {CutFile(file, n) : n \in 0..(Bytes(file.header) + Bytes(file.content) + 2)}

ModelFile(m) == [kind |-> "model", header |-> <<m.class>>, content |-> m.hp]

----------------------------------------------------------------------------
(* Paths and the file system.                                              *)

Path(dir, stem, ext) == [dir |-> dir, stem |-> stem, ext |-> ext]

Exists(p) == p \in DOMAIN fs

\* list(conf.recommender_dirs[dataset].iterdir())
IterDir(dir) == {p \in DOMAIN fs : p.dir = dir}

WriteFile(p, content) == [q \in (DOMAIN fs) \cup {p} |-> IF q = p THEN content ELSE fs[q]]

\* f"{model_save_path.parent / model_save_path.stem}_hparams.txt"
GroundTruthHparamsPath(p) == Path(p.dir, p.stem \o "_hparams", "txt")

\* f"{model_base_save_path}_factors_{factor}.npz"
FactorModelPath(factor) ==
    Path(conf.recommender_dirs, conf.model_base_name \o "_factors_" \o Flat(Str(factor)), "npz")

\* f"{model_base_save_path}_factors_{factor}_hparams.txt"
FactorHparamsPath(factor) ==
    Path(conf.recommender_dirs,
         conf.model_base_name \o "_factors_" \o Flat(Str(factor)) \o "_hparams", "txt")

----------------------------------------------------------------------------
(* Grids: ordered dicts from a hyperparameter name to its candidates.      *)

\* hyperparams_inner = hyperparams.copy(); hyperparams_inner.pop("factors")
hyperparams_inner(grid) == SelectSeq(grid, LAMBDA e : e[1] # "factors")

\* The factor values taken from the first key of the grid, whatever its name.
FactorsOfFirstKey(grid) == Values(grid)[1]

\* The factor values walked from the last to the first.
FactorsReversed(grid) ==
    LET f == Get(grid, "factors")
    IN [k \in 1..Len(f) |-> f[Len(f) + 1 - k]]

Factors(grid) == Get(grid, "factors")

\* list((factor,) + hp for hp in hyperparams_inner_flat)
hparams_of_factor(grid, factor) ==
    LET flat == Product(Values(hyperparams_inner(grid)))
    IN [k \in 1..Len(flat) |-> <<factor>> \o flat[k]]

FactorChoices == {[k \in 1..n |-> IntV(8 * k)] : n \in 0..MaxFactors}
RegChoices == {[k \in 1..n |-> IntV(k)] : n \in 0..MaxReg}

RecGrids ==
    {<< <<"factors", f>>, <<"regularization", r>> >> :
        f \in FactorChoices, r \in RegChoices}
    \cup {<< <<"regularization", r>>, <<"factors", f>> >> :
        f \in FactorChoices, r \in RegChoices}
    \cup {<< <<"factors", f>>, <<"regularization", r>>,
             <<"alpha", <<IntV(5), IntV(6)>> >> >> :
        f \in FactorChoices, r \in RegChoices}
    \cup {<< <<"regularization", <<IntV(1)>> >> >>}
    \cup {<< <<"factors", <<IntV(8)>> >>, <<"alpha", <<TupV(1, 5)>> >> >>,
          << <<"factors", <<IntV(8), IntV(8)>> >>, <<"regularization", <<IntV(1)>> >> >>}

(* Grids of the runs that start on a directory holding stale entries, and  *)
(* the grids on which a pool behaves differently from the sequential loop. *)
DirectoryGrids ==
    {<< <<"factors", f>>, <<"regularization", <<IntV(1)>> >> >> : f \in FactorChoices}

HasEmptyKey(grid) == \E k \in 1..Len(grid) : grid[k][2] = <<>>

GtGrids == {<< <<"regularization", r>> >> : r \in RegChoices}

GtPaths == {Path("rec", "gt", "npz"), Path("ext", "gt", "npz")}

----------------------------------------------------------------------------
(* Stage-machine states recorded in trace.                                 *)

St(name) == [s |-> name, f |-> NoneV]
PerFactorSearch(factor) == [s |-> "PerFactorSearch", f |-> factor]

Trial(stage, hp) == [stage |-> stage, hp |-> hp]

TrialsOf(stage, names, flat, S) ==
    LET order == SeqOfSet(S)
    IN [k \in 1..Len(order) |-> Trial(stage, DictZip(names, flat[order[k]]))]

sqOff == [pc |-> "off"]

----------------------------------------------------------------------------
(* The pipeline: generate_recommenders, called up to MaxCalls times on one *)
(* file system.                                                            *)

PriorGroundTruth ==
    [err |-> "none",
     best_dict |-> [model |-> Model("GT", << <<"regularization", IntV(1)>> >>),
               hparams |-> << <<"regularization", IntV(1)>> >>,
               info |-> << <<"ndcg", IntV(1)>>, <<"hr", IntV(1)>>,
                           <<"model", ClassV("GT")>>, <<"used", StrV("ndcg")>>,
                           <<"seed_start", IntV(0)>> >>]]

StaleFiles(n) ==
    [p \in {Path("rec", "other" \o IntToStr(k), "dat") : k \in 1..n} |->
        [kind |-> "other", header |-> <<>>, content |-> <<>>]]

GroundTruthFiles(p) ==
    [q \in {p, GroundTruthHparamsPath(p)} |->
        IF q = p THEN ModelFile(PriorGroundTruth.best_dict.model)
        ELSE save_hyperparams_and_metrics(PriorGroundTruth.best_dict.hparams,
                                   PriorGroundTruth.best_dict.info)]

\* The runs explored: every directory layout (paths, stale entries, prior
\* ground truth) on the grids of DirectoryGrids, and every grid of RecGrids
\* on a directory without stale entries; a pool is started only where it
\* can differ from the sequential loop (a failing trial, an empty grid).
Init ==
    /\ ground_truth_model_path \in GtPaths
    /\ model \in [bad : {NoneV, IntV(16), IntV(2)}, sel : {"sum"}, table : {<<>>},
                  names : {MetricNames}]
    /\ \E present \in BOOLEAN, stale \in 0..MaxStale :
        /\ fs = IF present THEN StaleFiles(stale) @@ GroundTruthFiles(ground_truth_model_path)
                ELSE StaleFiles(stale)
        /\ retrievable \in IF present THEN {TRUE} ELSE BOOLEAN
        /\ \E parallel \in BOOLEAN, ground_truth_files \in GtPaths,
              recommender_hparams \in RecGrids, ground_truth_hparams \in GtGrids :
            /\ (present \/ ~retrievable) =>
                  ground_truth_hparams = << <<"regularization", <<IntV(1)>> >> >>
            /\ recommender_hparams \notin DirectoryGrids =>
                  /\ stale = 0
                  /\ ground_truth_files = ground_truth_model_path
                  /\ ground_truth_model_path = Path("rec", "gt", "npz")
            /\ stale > 0 => model.bad = NoneV
            /\ parallel => (model.bad # NoneV \/ HasEmptyKey(recommender_hparams)
                            \/ HasEmptyKey(ground_truth_hparams))
            /\ conf = [parallel |-> parallel, cpu |-> MaxCpu, recommender_evaluation_metric |-> "ndcg",
                       seed_start |-> 0, evaluation_k |-> 1,
                       ground_truth_models |-> "GT", recommender_models |-> "ALS",
                       ground_truth_hparams |-> ground_truth_hparams, recommender_hparams |-> recommender_hparams,
                       ground_truth_files |-> ground_truth_files, recommender_dirs |-> "rec", model_base_name |-> "model"]
    /\ pc = "Idle"
    /\ calls = 0
    /\ ground_truth_model = NoneV
    /\ idx = 0
    /\ best_dict = NoBest
    /\ err = "none"
    /\ trace = <<>>
    /\ trials = <<>>
    /\ writes = <<>>
    /\ atStart = [entries |-> {}, gt |-> FALSE, completed |-> FALSE]
    /\ completed = FALSE
    /\ sq = sqOff

Fixed == UNCHANGED <<conf, ground_truth_model_path, retrievable, model, sq>>

\* Resolution that asks for retrievability before looking at the path.
ResolutionRetrieveFirst ==
    IF retrievable THEN "generate"
    ELSE IF Exists(ground_truth_model_path) THEN "load"
    ELSE "unimplemented"

\* The if / elif / else that resolves the ground truth.
Resolution ==
    IF Exists(ground_truth_model_path) THEN "load"
    ELSE IF retrievable THEN "generate"
    ELSE "unimplemented"

\* The skip test with >= 2 in place of > 2.
AlreadySearchedFromTwo == Cardinality(IterDir(conf.recommender_dirs)) >= 2

\* The skip test that also allows for one recommender and its artifact.
AlreadySearchedAboveFour == Cardinality(IterDir(conf.recommender_dirs)) > 4

\* len(list(conf.recommender_dirs[dataset].iterdir())) > 2
AlreadySearched == Cardinality(IterDir(conf.recommender_dirs)) > 2

CanCall == pc \in {"Idle", "Finished", "Error"} /\ calls < MaxCalls

\* What every call of generate_recommenders starts from.
Enter ==
    /\ calls' = calls + 1
    /\ idx' = 0
    /\ best_dict' = NoBest
    /\ trials' = <<>>
    /\ writes' = <<>>
    /\ atStart' = [entries |-> {p \in DOMAIN fs : p.dir = conf.recommender_dirs},
                   gt |-> ground_truth_model_path \in DOMAIN fs,
                   completed |-> completed]
    /\ UNCHANGED <<fs, completed>>

\* if ground_truth_model_path.exists(): load it
ResolveLoad ==
    /\ CanCall
    /\ Resolution = "load"
    /\ Enter
    /\ ground_truth_model' = [class |-> conf.ground_truth_models, hp |-> fs[ground_truth_model_path].content]
    /\ trace' = <<St("NotStarted")>>
    /\ err' = "none"
    /\ pc' = "CheckDir"
    /\ Fixed

\* elif dataset in datasets.DATASETS_RETRIEVE_MAP: generate_ground_truth
ResolveGenerate ==
    /\ CanCall
    /\ Resolution = "generate"
    /\ Enter
    /\ ground_truth_model' = NoneV
    /\ trace' = <<St("NotStarted"), St("GroundTruthMissing")>>
    /\ err' = "none"
    /\ pc' = "Stage1Search"
    /\ Fixed

\* else: raise NotImplementedError
ResolveUnimplemented ==
    /\ CanCall
    /\ Resolution = "unimplemented"
    /\ Enter
    /\ ground_truth_model' = NoneV
    /\ trace' = <<St("NotStarted")>>
    /\ err' = "NotImplementedError"
    /\ pc' = "Error"
    /\ Fixed

\* A stage 1 that hands the winner to its caller before saving it.
SearchGroundTruthReturning ==
    /\ pc = "Stage1Search"
    /\ LET names == Keys(conf.ground_truth_hparams)
           flat == Product(Values(conf.ground_truth_hparams))
           r == search_best_model(names, flat, conf.ground_truth_models)
       IN /\ \E S \in StartedSets(names, flat, conf.ground_truth_models) :
                trials' = trials \o TrialsOf(1, names, flat,
                              IF r.err = "ValueError" /\ conf.parallel THEN {} ELSE S)
          /\ best_dict' = r.best_dict
          /\ ground_truth_model' = r.best_dict.model
          /\ err' = r.err
          /\ pc' = IF r.err = "none" THEN "Stage1SaveModel" ELSE "Error"
    /\ UNCHANGED <<fs, calls, idx, trace, writes, atStart, completed>>
    /\ Fixed

\* search_ground_truth up to the return of search_best_model
SearchGroundTruth ==
    /\ pc = "Stage1Search"
    /\ LET names == Keys(conf.ground_truth_hparams)
           flat == Product(Values(conf.ground_truth_hparams))
           r == search_best_model(names, flat, conf.ground_truth_models)
       IN /\ \E S \in StartedSets(names, flat, conf.ground_truth_models) :
                trials' = trials \o TrialsOf(1, names, flat,
                              IF r.err = "ValueError" /\ conf.parallel THEN {} ELSE S)
          /\ best_dict' = r.best_dict
          /\ err' = r.err
          /\ pc' = IF r.err = "none" THEN "Stage1SaveModel" ELSE "Error"
    /\ UNCHANGED <<fs, calls, ground_truth_model, idx, trace, writes, atStart, completed>>
    /\ Fixed

\* best_dict["model"].save(model_save_path)
SaveGroundTruthModel ==
    /\ pc = "Stage1SaveModel"
    /\ \E ok \in BOOLEAN :
        IF ok
        THEN /\ fs' = WriteFile(conf.ground_truth_files, ModelFile(best_dict.model))
             /\ writes' = Append(writes, conf.ground_truth_files)
             /\ pc' = "Stage1SaveHparams"
             /\ err' = err
        ELSE /\ pc' = "Error"
             /\ err' = "PersistenceFailure"
             /\ UNCHANGED <<fs, writes>>
    /\ UNCHANGED <<calls, ground_truth_model, idx, best_dict, trace, trials, atStart, completed>>
    /\ Fixed

\* save_hyperparams_and_metrics(hparams_save_path, ...); return best_dict["model"]
SaveGroundTruthHparams ==
    /\ pc = "Stage1SaveHparams"
    /\ LET p == GroundTruthHparamsPath(conf.ground_truth_files)
           file == save_hyperparams_and_metrics(best_dict.hparams, best_dict.info)
       IN \/ /\ fs' = WriteFile(p, file)
             /\ writes' = Append(writes, p)
             /\ ground_truth_model' = best_dict.model
             /\ trace' = Append(trace, St("GroundTruthBootstrapped"))
             /\ pc' = "CheckDir"
             /\ err' = err
          \/ /\ pc' = "Error"
             /\ err' = "PersistenceFailure"
             /\ UNCHANGED <<fs, writes, ground_truth_model, trace>>
          \/ /\ \E cut \in Truncations(file) : fs' = WriteFile(p, cut)
             /\ pc' = "Error"
             /\ err' = "PersistenceFailure"
             /\ writes' = Append(writes, p)
             /\ UNCHANGED <<ground_truth_model, trace>>
    /\ UNCHANGED <<calls, idx, best_dict, trials, atStart, completed>>
    /\ Fixed

\* if len(list(conf.recommender_dirs[dataset].iterdir())) > 2: only log
SkipRecommenders ==
    /\ pc = "CheckDir"
    /\ AlreadySearched
    /\ trace' = Append(trace, St("SkippedAlreadyDone"))
    /\ pc' = "Finished"
    /\ UNCHANGED <<fs, calls, ground_truth_model, idx, best_dict, err, trials, writes, atStart, completed>>
    /\ Fixed

\* else: split the preferences and enter search_recommender
StartRecommenders ==
    /\ pc = "CheckDir"
    /\ ~AlreadySearched
    /\ IF HasKey(conf.recommender_hparams, "factors")
       THEN pc' = "FactorLoop" /\ idx' = 1 /\ err' = err
       ELSE pc' = "Error" /\ idx' = idx /\ err' = "KeyError"
    /\ UNCHANGED <<fs, calls, ground_truth_model, best_dict, trace, trials, writes, atStart, completed>>
    /\ Fixed

\* for factor in factors: ... best_dict = search_best_model(...)
SearchFactor ==
    /\ pc = "FactorLoop"
    /\ idx <= Len(Factors(conf.recommender_hparams))
    /\ LET factor == Factors(conf.recommender_hparams)[idx]
           names == Keys(conf.recommender_hparams)
           flat == hparams_of_factor(conf.recommender_hparams, factor)
           r == search_best_model(names, flat, conf.recommender_models)
       IN /\ \E S \in StartedSets(names, flat, conf.recommender_models) :
                trials' = trials \o TrialsOf(2, names, flat,
                              IF r.err = "ValueError" /\ conf.parallel THEN {} ELSE S)
          /\ trace' = Append(trace, PerFactorSearch(factor))
          /\ best_dict' = r.best_dict
          /\ err' = r.err
          /\ pc' = IF r.err = "none" THEN "Stage2SaveModel" ELSE "Error"
    /\ UNCHANGED <<fs, calls, ground_truth_model, idx, writes, atStart, completed>>
    /\ Fixed

\* best_dict["model"].save(f"{model_base_save_path}_factors_{factor}.npz")
SaveFactorModel ==
    /\ pc = "Stage2SaveModel"
    /\ LET p == FactorModelPath(Factors(conf.recommender_hparams)[idx])
       IN \E ok \in BOOLEAN :
            IF ok
            THEN /\ fs' = WriteFile(p, ModelFile(best_dict.model))
                 /\ writes' = Append(writes, p)
                 /\ pc' = "Stage2SaveHparams"
                 /\ err' = err
            ELSE /\ pc' = "Error"
                 /\ err' = "PersistenceFailure"
                 /\ UNCHANGED <<fs, writes>>
    /\ UNCHANGED <<calls, ground_truth_model, idx, best_dict, trace, trials, atStart, completed>>
    /\ Fixed

\* save_hyperparams_and_metrics(hparams_save_path, ...), then the next factor
SaveFactorHparams ==
    /\ pc = "Stage2SaveHparams"
    /\ LET p == FactorHparamsPath(Factors(conf.recommender_hparams)[idx])
           file == save_hyperparams_and_metrics(best_dict.hparams, best_dict.info)
       IN \/ /\ fs' = WriteFile(p, file)
             /\ writes' = Append(writes, p)
             /\ idx' = idx + 1
             /\ pc' = "FactorLoop"
             /\ err' = err
          \/ /\ pc' = "Error"
             /\ err' = "PersistenceFailure"
             /\ UNCHANGED <<fs, writes, idx>>
          \/ /\ \E cut \in Truncations(file) : fs' = WriteFile(p, cut)
             /\ writes' = Append(writes, p)
             /\ pc' = "Error"
             /\ err' = "PersistenceFailure"
             /\ idx' = idx
    /\ UNCHANGED <<calls, ground_truth_model, best_dict, trace, trials, atStart, completed>>
    /\ Fixed

\* the factor loop is exhausted: search_recommender and the call return
FinishRecommenders ==
    /\ pc = "FactorLoop"
    /\ idx > Len(Factors(conf.recommender_hparams))
    /\ trace' = Append(trace, St("Done"))
    /\ completed' = (completed \/ Len(Factors(conf.recommender_hparams)) >= 1)
    /\ pc' = "Finished"
    /\ UNCHANGED <<fs, calls, ground_truth_model, idx, best_dict, err, trials, writes, atStart>>
    /\ Fixed

Next ==
    \/ ResolveLoad
    \/ ResolveGenerate
    \/ ResolveUnimplemented
    \/ SearchGroundTruth
    \/ SaveGroundTruthModel
    \/ SaveGroundTruthHparams
    \/ SkipRecommenders
    \/ StartRecommenders
    \/ SearchFactor
    \/ SaveFactorModel
    \/ SaveFactorHparams
    \/ FinishRecommenders

Spec == Init /\ [][Next]_vars

----------------------------------------------------------------------------
(* One call of search_best_model, trial by trial: the list comprehension   *)
(* of the sequential mode and the worker pool of the parallel mode.        *)

SearchTuples == {<<IntV(v)>> : v \in 1..MaxConfigs}

\* hparams_flat: n distinct configurations, or n - 1 distinct configurations
\* of which the first is submitted again in the last position.
SearchLists ==
    {[k \in 1..n |-> <<IntV(k)>>] : n \in 0..MaxConfigs}
    \cup {[k \in 1..n |-> <<IntV(IF k = n THEN 1 ELSE k)>>] : n \in 2..MaxConfigs}

\* The results in the order in which the workers finished (imap_unordered).
UnorderedResults(results, finished) ==
    [k \in 1..Len(finished) |-> results[finished[k]]]

\* pool.starmap returns the results in the order of its arguments, whatever
\* the order in which the workers finished.
StarmapResults(results, finished) == [k \in 1..Len(finished) |-> results[k]]

\* One call of search_best_model on a batch of SearchLists.  The pool is
\* walked worker by worker on the usual metric names and the first metric;
\* every naming and either metric go through the sequential path, the
\* reduction being the same code in both modes.
SearchInit ==
    /\ \E parallel \in BOOLEAN, cpu \in 1..MaxCpu, names \in MetricNameSets, which \in 1..2 :
        /\ (~parallel) => cpu = 1
        /\ parallel => (names = MetricNames /\ which = 1)
        /\ model \in [bad : {NoneV, IntV(1)}, sel : {"table"},
                      table : [SearchTuples -> 0..MaxMetric], names : {names}]
        /\ conf = [parallel |-> parallel, cpu |-> cpu, recommender_evaluation_metric |-> names[which],
                   seed_start |-> 0, evaluation_k |-> 1,
                   ground_truth_models |-> "GT", recommender_models |-> "ALS",
                   ground_truth_hparams |-> <<>>, recommender_hparams |-> <<>>,
                   ground_truth_files |-> Path("rec", "gt", "npz"),
                   recommender_dirs |-> "rec", model_base_name |-> "model"]
    /\ \E flat \in SearchLists :
        sq = [pc |-> "Start", names |-> <<"factors">>, flat |-> flat,
              class |-> "ALS", nprocs |-> 0, next |-> 1, running |-> {},
              started |-> <<>>, finished |-> <<>>, results |-> <<>>,
              worker |-> <<>>, overlapped |-> {}, log |-> <<>>, raised |-> {},
              res |-> <<>>, out |-> NoBest, err |-> "none"]
    /\ ground_truth_model_path = Path("rec", "gt", "npz")
    /\ retrievable = TRUE
    /\ fs = StaleFiles(0)
    /\ pc = "Idle"
    /\ calls = 0
    /\ ground_truth_model = NoneV
    /\ idx = 0
    /\ best_dict = NoBest
    /\ err = "none"
    /\ trace = <<>>
    /\ trials = <<>>
    /\ writes = <<>>
    /\ atStart = [entries |-> {}, gt |-> FALSE, completed |-> FALSE]
    /\ completed = FALSE

SqFixed == UNCHANGED <<conf, model, pipeVars>>

SqTrial(k) == train_eval_one_configuration(sq.flat[k], sq.names, sq.class)

\* else: res = [train_eval_one_configuration(*arg) for arg in args]
DispatchSequential ==
    /\ sq.pc = "Start"
    /\ ~conf.parallel
    /\ sq' = [sq EXCEPT !.pc = "Sequential"]
    /\ SqFixed

\* n_procs = min(len(hparams_flat), mp.cpu_count()); mp.Pool(processes=n_procs)
DispatchPool ==
    /\ sq.pc = "Start"
    /\ conf.parallel
    /\ LET n == NProcs(Len(sq.flat))
       IN sq' = IF n < 1
                THEN [sq EXCEPT !.pc = "Raised", !.err = "ValueError"]
                ELSE [sq EXCEPT !.pc = "Pool", !.nprocs = n]
    /\ SqFixed

\* one iteration of the list comprehension: a whole trial
SequentialTrial ==
    /\ sq.pc = "Sequential"
    /\ Len(sq.started) < Len(sq.flat)
    /\ LET k == Len(sq.started) + 1
           r == SqTrial(k)
       IN sq' = IF r.raised
                THEN [sq EXCEPT !.pc = "Raised", !.err = "TrialFailure",
                                !.started = Append(@, k),
                                !.raised = @ \cup {k}]
                ELSE [sq EXCEPT !.started = Append(@, k),
                                !.finished = Append(@, k),
                                !.log = Append(@, TrialCalls),
                                !.results = Append(@, r)]
    /\ SqFixed

\* the list comprehension is exhausted
SequentialDone ==
    /\ sq.pc = "Sequential"
    /\ Len(sq.started) = Len(sq.flat)
    /\ sq' = [sq EXCEPT !.pc = "Reduce", !.res = sq.results]
    /\ SqFixed

\* an idle worker takes the next task of the queue; the batches of
\* SearchLists are short enough for ChunkSize to be one task
PoolStart ==
    /\ sq.pc = "Pool"
    /\ Cardinality(sq.running) < sq.nprocs
    /\ sq.next <= Len(sq.flat)
    /\ \E w \in (1..sq.nprocs) \ {sq.worker[j] : j \in sq.running} :
        LET k == sq.next
        IN sq' = [sq EXCEPT !.running = @ \cup {k},
                            !.started = Append(@, k),
                            !.next = @ + 1,
                            !.worker = [j \in sq.running \cup {k} |->
                                          IF j = k THEN w ELSE @[j]],
                            !.log = [j \in (DOMAIN @) \cup {k} |->
                                       IF j = k THEN <<>> ELSE @[j]],
                            !.overlapped = IF sq.running = {} THEN @
                                           ELSE @ \cup sq.running \cup {k}]
    /\ SqFixed

\* a worker makes the first call of its trial
PoolTrain ==
    /\ sq.pc = "Pool"
    /\ \E k \in sq.running :
        /\ sq.log[k] = <<>>
        /\ sq' = [sq EXCEPT !.log[k] = <<TrialCalls[1]>>]
    /\ SqFixed

\* a worker makes the last call of its trial and hands back the result, or
\* hands back the exception one of the calls raised; the pool keeps the
\* exception and goes on with the other tasks
PoolFinish ==
    /\ sq.pc = "Pool"
    /\ \E k \in sq.running :
        LET r == SqTrial(k)
        IN /\ r.raised \/ sq.log[k] = <<TrialCalls[1]>>
           /\ sq' =
                 IF r.raised
                 THEN [sq EXCEPT !.running = @ \ {k},
                                 !.worker = [j \in sq.running \ {k} |-> @[j]],
                                 !.raised = @ \cup {k}]
                 ELSE [sq EXCEPT !.running = @ \ {k},
                                 !.worker = [j \in sq.running \ {k} |-> @[j]],
                                 !.finished = Append(@, k),
                                 !.log[k] = Append(@, TrialCalls[2]),
                                 !.results = [j \in (DOMAIN @) \cup {k} |->
                                                IF j = k THEN r ELSE @[j]]]
    /\ SqFixed

\* res = pool.starmap(...) returns, or raises the exception it has kept,
\* once every task has handed back a result or an exception
PoolCollect ==
    /\ sq.pc = "Pool"
    /\ Len(sq.finished) + Cardinality(sq.raised) = Len(sq.flat)
    /\ sq' = IF sq.raised # {}
             THEN [sq EXCEPT !.pc = "Raised", !.err = "TrialFailure"]
             ELSE [sq EXCEPT !.pc = "Reduce",
                             !.res = StarmapResults(sq.results, sq.finished)]
    /\ SqFixed

\* max(res, key=...) and the returned dict
Reduce ==
    /\ sq.pc = "Reduce"
    /\ sq' = IF sq.res = <<>>
             THEN [sq EXCEPT !.pc = "Raised", !.err = "ValueError"]
             ELSE [sq EXCEPT !.pc = "Returned", !.out = BestDict(PyMax(sq.res))]
    /\ SqFixed

SearchNext ==
    \/ DispatchSequential
    \/ DispatchPool
    \/ SequentialTrial
    \/ SequentialDone
    \/ PoolStart
    \/ PoolTrain
    \/ PoolFinish
    \/ PoolCollect
    \/ Reduce

SearchSpec == SearchInit /\ [][SearchNext]_vars

----------------------------------------------------------------------------
(* Vocabulary of the properties.                                           *)

Terminated == pc \in {"Finished", "Error"}
LastState == trace[Len(trace)].s
InTrace(name) == \E k \in 1..Len(trace) : trace[k].s = name
Skipped == pc = "Finished" /\ LastState = "SkippedAlreadyDone"
RanToDone == pc = "Finished" /\ LastState = "Done"

GroundTruthWrites == {conf.ground_truth_files, Path(conf.ground_truth_files.dir, conf.ground_truth_files.stem \o "_hparams", "txt")}
StageOneWrites == SelectSeq(writes, LAMBDA p : p \in GroundTruthWrites)
StageTwoWrites == SelectSeq(writes, LAMBDA p : p \notin GroundTruthWrites)

\* Entries of the recommender directory once the ground truth is resolved.
EntriesAfterResolution ==
    atStart.entries \cup
        {p \in GroundTruthWrites : p.dir = conf.recommender_dirs /\ InTrace("GroundTruthBootstrapped")}

GridFactors == Get(conf.recommender_hparams, "factors")
DistinctFactors == {GridFactors[k] : k \in 1..Len(GridFactors)}
HasFactors == \E k \in 1..Len(conf.recommender_hparams) : conf.recommender_hparams[k][1] = "factors"

----------------------------------------------------------------------------
\* C1 (as claimed): a call that starts on a recommender directory of exactly
\* 2 entries runs the per-factor search, and one that starts on 3 or more
\* entries skips it and writes no file at all.
C1_AsClaimed ==
    pc = "Finished" =>
        /\ Cardinality(atStart.entries) = 2 => LastState = "Done"
        /\ Cardinality(atStart.entries) >= 3 => LastState = "SkippedAlreadyDone" /\ writes = <<>>

\* C1 (amended): the entries are counted once the ground truth is resolved.
\* With 2 or fewer entries then, the per-factor search runs; with 3 or more
\* it is skipped and the call writes nothing but the files of stage 1, which
\* means no file at all when the artifact was present at the start.
C1_SkipRule ==
    (Terminated /\ ground_truth_model # NoneV) =>
        /\ Cardinality(EntriesAfterResolution) <= 2 =>
              /\ ~InTrace("SkippedAlreadyDone")
              /\ pc = "Finished" => LastState = "Done"
        /\ Cardinality(EntriesAfterResolution) >= 3 =>
              /\ Skipped
              /\ StageTwoWrites = <<>>
              /\ atStart.gt => writes = <<>>
              /\ trials = SelectSeq(trials, LAMBDA t : t.stage = 1)

C1_Witness ==
    /\ RanToDone
    /\ atStart.gt
    /\ Cardinality(atStart.entries) = 2
    /\ Len(StageTwoWrites) >= 2

----------------------------------------------------------------------------
\* C2 (as claimed): once a call has run stage 2 to completion with at least
\* one factor value, every later call skips, runs no trial and writes no
\* file, wherever the ground-truth artifact lives.
C2_AsClaimed ==
    atStart.completed =>
        /\ pc \in {"CheckDir", "Finished"}
        /\ pc = "Finished" => LastState = "SkippedAlreadyDone"
        /\ trials = <<>>
        /\ writes = <<>>

\* C2 (amended): once a call has run stage 2 to completion with at least one
\* factor value, every later call that finds the artifact at groundTruthPath
\* skips, runs no trial and writes no file, provided the artifact lives
\* inside the recommender directory or the grid has two distinct factor
\* values or more.
C2_Idempotent ==
    (/\ atStart.completed
     /\ atStart.gt
     /\ ground_truth_model_path.dir = conf.recommender_dirs \/ Cardinality(DistinctFactors) >= 2) =>
        /\ pc \in {"CheckDir", "Finished"}
        /\ pc = "Finished" => LastState = "SkippedAlreadyDone"
        /\ trials = <<>>
        /\ writes = <<>>

C2_Witness ==
    /\ atStart.completed
    /\ atStart.gt
    /\ ground_truth_model_path.dir # conf.recommender_dirs
    /\ Cardinality(DistinctFactors) >= 2
    /\ Skipped

----------------------------------------------------------------------------
SearchStates == [k \in 1..Len(GridFactors) |-> PerFactorSearch(GridFactors[k])]
BootstrapStates == <<St("GroundTruthMissing"), St("GroundTruthBootstrapped")>>

PathSearchLoaded == <<St("NotStarted")>> \o SearchStates \o <<St("Done")>>
PathSearchBootstrapped ==
    <<St("NotStarted")>> \o BootstrapStates \o SearchStates \o <<St("Done")>>
PathSkip == <<St("NotStarted"), St("SkippedAlreadyDone")>>
PathBootstrapSkip ==
    <<St("NotStarted")>> \o BootstrapStates \o <<St("SkippedAlreadyDone")>>

\* C3 (as claimed): a successful call goes NotStarted, optionally
\* GroundTruthMissing and GroundTruthBootstrapped, the per-factor searches
\* in grid order, Done; or NotStarted, SkippedAlreadyDone.  No call
\* bootstraps the ground truth and then skips.
C3_AsClaimed ==
    pc = "Finished" =>
        \/ trace = PathSkip
        \/ HasFactors /\ trace \in {PathSearchLoaded, PathSearchBootstrapped}

\* C3 (amended): a successful call follows one of three paths, the two
\* claimed and NotStarted, GroundTruthMissing, GroundTruthBootstrapped,
\* SkippedAlreadyDone; and no per-factor search starts before a ground-truth
\* model has been loaded or bootstrapped.
C3_Paths ==
    /\ pc = "Finished" =>
          \/ trace \in {PathSkip, PathBootstrapSkip}
          \/ HasFactors /\ trace \in {PathSearchLoaded, PathSearchBootstrapped}
    /\ InTrace("PerFactorSearch") => ground_truth_model # NoneV

C3_Witness ==
    /\ pc = "Finished"
    /\ trace = PathBootstrapSkip

----------------------------------------------------------------------------
\* C4: an artifact at groundTruthPath is loaded and stage 1 does not run;
\* without it a retrievable dataset goes through stage 1; otherwise the call
\* fails with NotImplementedError, having run no trial and written no file.
C4_Resolution ==
    calls >= 1 =>
        /\ atStart.gt =>
              /\ ~InTrace("GroundTruthMissing")
              /\ \A k \in 1..Len(trials) : trials[k].stage # 1
              /\ StageOneWrites = <<>>
              /\ ground_truth_model = [class |-> conf.ground_truth_models, hp |-> fs[ground_truth_model_path].content]
              /\ err # "NotImplementedError"
        /\ (~atStart.gt /\ retrievable) =>
              /\ Len(trace) >= 2 /\ trace[2].s = "GroundTruthMissing"
              /\ err # "NotImplementedError"
        /\ (~atStart.gt /\ ~retrievable) =>
              /\ pc = "Error"
              /\ err = "NotImplementedError"
        /\ err = "NotImplementedError" =>
              /\ pc = "Error"
              /\ trials = <<>>
              /\ writes = <<>>

C4_Witness ==
    /\ pc = "Error"
    /\ err = "NotImplementedError"
    /\ ~atStart.gt
    /\ calls = MaxCalls

----------------------------------------------------------------------------
(* Properties of one search_best_model call.                               *)

NumTrials == Len(sq.flat)
TrialMetric(k) == Get(SqTrial(k).metrics, conf.recommender_evaluation_metric).v
IsMaximal(k) == \A j \in 1..NumTrials : TrialMetric(j) <= TrialMetric(k)
UniqueMaximum == Cardinality({k \in 1..NumTrials : IsMaximal(k)}) = 1
MetricsOf(out) == SubSeq(out.info, 1, Len(MetricNames))

\* What the list comprehension of the sequential mode hands to max().
SequentialResults == [k \in 1..NumTrials |-> SqTrial(k)]

\* C5: on the same configurations and the same deterministic model, the
\* winner returned in parallel mode has the metrics and the hyperparameters
\* of the winner of the sequential mode, ties and finishing orders included.
C5_ParallelEqualsSequential ==
    (sq.pc = "Returned" /\ conf.parallel) =>
        LET winner == BestDict(PyMax(SequentialResults))
        IN /\ sq.out.hparams = winner.hparams
           /\ MetricsOf(sq.out) = MetricsOf(winner)

C5_Witness ==
    /\ sq.pc = "Returned"
    /\ conf.parallel
    /\ sq.finished # [k \in 1..NumTrials |-> k]
    /\ \E j, k \in 1..NumTrials :
        /\ j < k
        /\ IsMaximal(j) /\ IsMaximal(k)
        /\ sq.flat[j] # sq.flat[k]
        /\ sq.finished[1] = k

\* C6: the winner's target metric is at least that of every trial of the
\* batch, and a trial that strictly exceeds all others, at whatever
\* position, is the one selected.
C6_SelectsMaximum ==
    sq.pc = "Returned" =>
        /\ \E w \in 1..NumTrials :
              /\ sq.out.hparams = SqTrial(w).hp
              /\ sq.out.model = SqTrial(w).model
              /\ \A k \in 1..NumTrials : TrialMetric(k) <= TrialMetric(w)
        /\ \A k \in 1..NumTrials :
              (\A j \in 1..NumTrials : j # k => TrialMetric(j) < TrialMetric(k)) =>
                  /\ sq.out.hparams = SqTrial(k).hp
                  /\ sq.out.model = SqTrial(k).model

C6_Witness ==
    /\ sq.pc = "Returned"
    /\ NumTrials >= 3
    /\ UniqueMaximum
    /\ IsMaximal(2)
    /\ TrialMetric(1) # TrialMetric(3)

IndexPermutations(n) ==
    {f \in [1..n -> 1..n] : \A a, b \in 1..n : f[a] = f[b] => a = b}

Permuted(res, f) == [k \in 1..Len(res) |-> res[f[k]]]

\* C7: when exactly one trial attains the maximum target metric, every
\* permutation of the result list reduces to the same winner.
C7_OrderIndependent ==
    (sq.pc \in {"Reduce", "Returned"} /\ sq.res # <<>> /\ UniqueMaximum) =>
        \A f \in IndexPermutations(Len(sq.res)) :
            /\ PyMax(Permuted(sq.res, f)).hp = PyMax(sq.res).hp
            /\ PyMax(Permuted(sq.res, f)).metrics = PyMax(sq.res).metrics

C7_Witness ==
    /\ sq.pc = "Reduce"
    /\ Len(sq.res) >= 3
    /\ UniqueMaximum
    /\ IsMaximal(3)
    /\ TrialMetric(1) > TrialMetric(2)

----------------------------------------------------------------------------
(* Properties of what stage 2 persists and of the trials of both stages.   *)

FactorText(k) == IntToStr(GridFactors[k].v)

ExpectedModelPath(k) == Path("rec", "model_factors_" \o FactorText(k), "npz")
ExpectedHparamsPath(k) ==
    Path("rec", "model_factors_" \o FactorText(k) \o "_hparams", "txt")

\* The field recorded under a header name of a two-line artifact.
Field(file, name) ==
    LET header == Split(file.header)
        content == Split(file.content)
    IN content[CHOOSE k \in 1..Len(header) : header[k] = name]

\* C8 (as claimed; the code breaks it): stage 2 run to Done on a grid with n
\* distinct factor values writes exactly n model files and n artifacts, one
\* pair per value v, and each artifact records v under `factors`.
C8_AsClaimed ==
    (RanToDone /\ Cardinality(DistinctFactors) = Len(GridFactors)) =>
        /\ Len(StageTwoWrites) = 2 * Len(GridFactors)
        /\ \A k \in 1..Len(GridFactors) :
              /\ \E w \in 1..Len(writes) : writes[w] = ExpectedModelPath(k)
              /\ \E w \in 1..Len(writes) : writes[w] = ExpectedHparamsPath(k)
              /\ fs[ExpectedModelPath(k)].kind = "model"
              /\ Field(fs[ExpectedHparamsPath(k)], "factors") = FactorText(k)

GridOfStage(stage) == IF stage = 1 THEN conf.ground_truth_hparams ELSE conf.recommender_hparams

Candidates(grid, key) ==
    LET vals == Get(grid, key) IN {vals[k] : k \in 1..Len(vals)}

\* C9 (as claimed; the code breaks it): every trial binds each grid key to
\* a value of that key's own candidate sequence, whatever the key order.
C9_AsClaimed ==
    \A t \in 1..Len(trials) :
        LET grid == GridOfStage(trials[t].stage)
            hp == trials[t].hp
        IN /\ Keys(hp) = Keys(grid)
           /\ \A k \in 1..Len(hp) : hp[k][2] \in Candidates(grid, hp[k][1])

\* C10 (as claimed; the code breaks it): a stage whose grid has a key with
\* no candidate fails with an error; it neither completes nor persists a
\* model or an artifact.
C10_AsClaimed ==
    /\ HasEmptyKey(conf.ground_truth_hparams) =>
          /\ ~InTrace("GroundTruthBootstrapped")
          /\ StageOneWrites = <<>>
    /\ HasEmptyKey(conf.recommender_hparams) =>
          /\ ~RanToDone
          /\ StageTwoWrites = <<>>

----------------------------------------------------------------------------
TrialRaises(t) == \E k \in 1..Len(t.hp) : t.hp[k][2] = model.bad

\* The files of the per-factor search that the call is in.
CurrentFactorPaths ==
    LET f == trace[Len(trace)].f
    IN {Path("rec", "model_factors_" \o IntToStr(f.v), "npz"),
        Path("rec", "model_factors_" \o IntToStr(f.v) \o "_hparams", "txt")}

\* C11: when one trial of a batch raises, in either dispatch mode, the call
\* ends with that exception, no best-model record is returned and neither
\* the model file nor the artifact of that search is written, however many
\* other trials of the batch succeeded.
C11_FailFast ==
    \A t \in 1..Len(trials) :
        TrialRaises(trials[t]) =>
            /\ pc = "Error"
            /\ err = "TrialFailure"
            /\ best_dict = NoBest
            /\ trials[t].stage = 1 => writes = <<>>
            /\ trials[t].stage = 2 =>
                  /\ LastState = "PerFactorSearch"
                  /\ \A w \in 1..Len(writes) : writes[w] \notin CurrentFactorPaths

C11_Witness ==
    /\ pc = "Error"
    /\ err = "TrialFailure"
    /\ conf.parallel
    /\ \E a, b \in 1..Len(trials) :
        /\ trials[a].stage = 2 /\ trials[b].stage = 2
        /\ TrialRaises(trials[a])
        /\ ~TrialRaises(trials[b])
        /\ trials[a].hp[1] = trials[b].hp[1]

----------------------------------------------------------------------------
RECURSIVE LengthProduct(_)
LengthProduct(grid) ==
    IF grid = <<>> THEN 1 ELSE Len(Head(grid)[2]) * LengthProduct(Tail(grid))

NoEmptyKey(grid) == \A k \in 1..Len(grid) : grid[k][2] # <<>>

TrialsOfStage(stage) == SelectSeq(trials, LAMBDA t : t.stage = stage)

\* C12: on a grid without empty candidate sequence, the trials of stage 1
\* number the product of the candidate-sequence lengths of the ground-truth
\* grid, and the trials of a stage 2 run to Done, summed over the per-factor
\* searches, number that product for the recommender grid.
C12_TrialCount ==
    /\ (InTrace("GroundTruthBootstrapped") /\ NoEmptyKey(conf.ground_truth_hparams)) =>
          Len(TrialsOfStage(1)) = LengthProduct(conf.ground_truth_hparams)
    /\ (RanToDone /\ NoEmptyKey(conf.recommender_hparams)) =>
          Len(TrialsOfStage(2)) = LengthProduct(conf.recommender_hparams)

C12_Witness ==
    /\ RanToDone
    /\ InTrace("GroundTruthBootstrapped")
    /\ Len(conf.recommender_hparams) = 3
    /\ Len(TrialsOfStage(1)) = 2
    /\ Len(TrialsOfStage(2)) = 8

----------------------------------------------------------------------------
\* Both lines of the artifact split by comma give back, position by
\* position, the keys and the string conversions of the values of hparams
\* followed by info.
RoundTrips(file, hparams, info) ==
    LET header == Split(file.header)
        content == Split(file.content)
        d == hparams \o info
    IN /\ Len(header) = Len(d)
       /\ Len(content) = Len(d)
       /\ \A k \in 1..Len(d) :
             /\ header[k] = d[k][1]
             /\ content[k] = Flat(Str(d[k][2]))

\* A sequence of <<key, text>> pairs as a mapping: a repeated key keeps the
\* text of its last occurrence.
AsMapping(pairs) ==
    {pairs[k] : k \in {j \in 1..Len(pairs) :
                          \A i \in (j + 1)..Len(pairs) : pairs[i][1] # pairs[j][1]}}

\* The mapping read back from the artifact: line 1 and line 2 split by comma
\* and paired position by position.
Reconstructed(file) ==
    LET header == Split(file.header)
        content == Split(file.content)
    IN AsMapping([k \in 1..Min(Len(header), Len(content)) |-> <<header[k], content[k]>>])

\* The union of hparams and info, each value as its string conversion.
PassedIn(hparams, info) ==
    LET d == hparams \o info
    IN AsMapping([k \in 1..Len(d) |-> <<d[k][1], Flat(Str(d[k][2]))>>])

HasSeparator(s) == \E k \in 1..Len(s) : SubSeq(s, k, k) \in {",", "\n"}

\* No key and no string conversion of a value holds a comma or a line break.
SeparatorFree(hparams, info) ==
    LET d == hparams \o info
    IN \A k \in 1..Len(d) : ~HasSeparator(d[k][1]) /\ ~HasSeparator(Flat(Str(d[k][2])))

ArtifactJustWritten ==
    /\ pc \in {"CheckDir", "FactorLoop", "Finished"}
    /\ writes # <<>>
    /\ writes[Len(writes)].ext = "txt"

\* C13 (as claimed): the artifact written from the hparams and info of any
\* record returned by search_best_model reads back, split by comma and
\* paired position by position, as the union of hparams and info under
\* string conversion of the values.
C13_AsClaimed ==
    ArtifactJustWritten =>
        Reconstructed(fs[writes[Len(writes)]]) = PassedIn(best_dict.hparams, best_dict.info)

\* C13 (amended): the artifact written from the hparams and info of a record
\* returned by search_best_model, none of whose keys and value texts holds a
\* comma or a line break, reads back as the union of hparams and info, field
\* by field in the order written.
C13_RoundTrip ==
    (ArtifactJustWritten /\ SeparatorFree(best_dict.hparams, best_dict.info)) =>
        /\ RoundTrips(fs[writes[Len(writes)]], best_dict.hparams, best_dict.info)
        /\ Reconstructed(fs[writes[Len(writes)]]) =
              PassedIn(best_dict.hparams, best_dict.info)

C13_Witness ==
    /\ ArtifactJustWritten
    /\ pc = "FactorLoop"
    /\ idx = 3
    /\ Len(best_dict.hparams) = 3
    /\ SeparatorFree(best_dict.hparams, best_dict.info)
    /\ Len(Split(fs[writes[Len(writes)]].content)) = 8
    /\ Split(fs[writes[Len(writes)]].content)[1] = "16"

----------------------------------------------------------------------------
StageOneReturned == InTrace("GroundTruthMissing") /\ ground_truth_model # NoneV

ExpectedGroundTruthArtifact ==
    Path(conf.ground_truth_files.dir, conf.ground_truth_files.stem \o "_hparams", "txt")

\* C14: once stage 1 has returned a model, the first two writes of the run
\* are the configured ground-truth path and its <stem>_hparams.txt sibling,
\* the file at the configured path holds the returned model, the returned
\* model is that of a stage-1 trial, and the artifact opens with that
\* model's hyperparameters; at the return itself the returned model is the
\* winner's and the artifact holds the winner's hyperparameters and info.
C14_SavedBeforeReturned ==
    StageOneReturned =>
        /\ Len(writes) >= 2
        /\ writes[1] = conf.ground_truth_files
        /\ writes[2] = ExpectedGroundTruthArtifact
        /\ fs[conf.ground_truth_files] = ModelFile(ground_truth_model)
        /\ \E t \in 1..Len(trials) :
              /\ trials[t].stage = 1
              /\ trials[t].hp = ground_truth_model.hp
        /\ LET hp == ground_truth_model.hp
               header == Split(fs[ExpectedGroundTruthArtifact].header)
               content == Split(fs[ExpectedGroundTruthArtifact].content)
           IN /\ Len(header) >= Len(hp)
              /\ Len(content) = Len(header)
              /\ \A k \in 1..Len(hp) :
                    /\ header[k] = hp[k][1]
                    /\ content[k] = Flat(Str(hp[k][2]))
        /\ (pc = "CheckDir") =>
              /\ best_dict.model = ground_truth_model
              /\ best_dict.hparams = ground_truth_model.hp
              /\ RoundTrips(fs[ExpectedGroundTruthArtifact], best_dict.hparams, best_dict.info)

C14_Witness ==
    /\ StageOneReturned
    /\ pc = "CheckDir"
    /\ conf.ground_truth_files # ground_truth_model_path
    /\ Len(TrialsOfStage(1)) >= 2
    /\ fs[conf.ground_truth_files] = ModelFile(best_dict.model)

----------------------------------------------------------------------------
\* The earliest position of the submitted list whose trial attains the
\* maximum of the target metric.
EarliestMaximal ==
    CHOOSE k \in 1..NumTrials : IsMaximal(k) /\ \A j \in 1..(k - 1) : ~IsMaximal(j)

\* C15: the record returned is that of the earliest submitted configuration
\* among those attaining the maximum, in both modes and for every order in
\* which the workers finish.
C15_EarliestTieWins ==
    sq.pc = "Returned" =>
        /\ sq.out.hparams = SqTrial(EarliestMaximal).hp
        /\ sq.out.model = SqTrial(EarliestMaximal).model

C15_Witness ==
    /\ sq.pc = "Returned"
    /\ conf.parallel
    /\ NumTrials = 3
    /\ IsMaximal(1) /\ IsMaximal(2) /\ ~IsMaximal(3)
    /\ sq.flat[1] # sq.flat[2]
    /\ sq.finished[1] = 2
    /\ sq.out.hparams = SqTrial(1).hp

----------------------------------------------------------------------------
\* The pool bound of line 56: at most min(number of configurations, conf.cpu)
\* trials run at the same time, each on a worker of its own.  Whether the
\* result of a trial depends on its worker or on the trials run alongside is
\* decided by train and validate of the model classes, which receive no seed
\* (lines 29-38); Validate takes them from the model capability contract as a
\* function of the configuration, so that nothing can be learnt about it here.
PoolWithinBound ==
    /\ Cardinality(sq.running) <= Min(NumTrials, conf.cpu)
    /\ \A j, k \in sq.running : j # k => sq.worker[j] # sq.worker[k]

\* C17: no configuration is started twice; a trial that has handed back its
\* result has called train and then validate, and a trial under way has not
\* called validate before train; when the reduction starts or has returned,
\* every submitted configuration has been started once and has handed back
\* its result, none is still running, and the reduction works on exactly
\* one result per configuration, in both modes.
C17_EachOnceToCompletion ==
    /\ \A a, b \in 1..Len(sq.started) : a # b => sq.started[a] # sq.started[b]
    /\ \A k \in DOMAIN sq.results : sq.log[k] = <<"train", "validate">>
    /\ \A k \in DOMAIN sq.log :
          sq.log[k] \in {<<>>, <<"train">>, <<"train", "validate">>}
    /\ sq.pc \in {"Reduce", "Returned"} =>
          /\ Len(sq.started) = NumTrials
          /\ {sq.started[a] : a \in 1..Len(sq.started)} = 1..NumTrials
          /\ Len(sq.finished) = NumTrials
          /\ {sq.finished[a] : a \in 1..Len(sq.finished)} = 1..NumTrials
          /\ sq.running = {}
          /\ DOMAIN sq.results = 1..NumTrials
          /\ Len(sq.res) = NumTrials
          /\ \A k \in 1..NumTrials : sq.res[k] = SqTrial(k)

C17_Witness ==
    /\ sq.pc = "Reduce"
    /\ conf.parallel
    /\ NumTrials = 3
    /\ sq.finished[1] = 2
    /\ sq.finished[3] = 1
    /\ \A k \in 1..3 : sq.log[k] = <<"train", "validate">>

----------------------------------------------------------------------------
\* C18 (as claimed): the returned record takes its model, hyperparameters
\* and metrics from one trial; its info holds every metric of that trial
\* with the trial's own value, and model, used and seed_start as the class,
\* the configured metric name and the seed start, whatever names validate
\* gives its metrics.
C18_AsClaimed ==
    sq.pc = "Returned" =>
        \E w \in 1..NumTrials :
            /\ sq.out.model = SqTrial(w).model
            /\ sq.out.hparams = SqTrial(w).hp
            /\ \A m \in 1..Len(SqTrial(w).metrics) :
                  /\ HasKey(sq.out.info, SqTrial(w).metrics[m][1])
                  /\ Get(sq.out.info, SqTrial(w).metrics[m][1]) = SqTrial(w).metrics[m][2]
            /\ Get(sq.out.info, "model") = ClassV(sq.class)
            /\ Get(sq.out.info, "used") = StrV(conf.recommender_evaluation_metric)
            /\ Get(sq.out.info, "seed_start") = IntV(conf.seed_start)

----------------------------------------------------------------------------
\* The per-factor searches the call has entered, in order.
FactorSearches == SelectSeq(trace, LAMBDA e : e.s = "PerFactorSearch")

\* The model file and the artifact of the first n factor values of the grid.
RECURSIVE ExpectedPairs(_)
ExpectedPairs(n) ==
    IF n = 0 THEN <<>>
    ELSE ExpectedPairs(n - 1) \o <<ExpectedModelPath(n), ExpectedHparamsPath(n)>>

\* The record search_best_model returns for the i-th factor value of the grid.
WinnerOfFactor(i) ==
    search_best_model(Keys(conf.recommender_hparams),
                      hparams_of_factor(conf.recommender_hparams, GridFactors[i]),
                      conf.recommender_models)

\* The directory holds the complete pair of the i-th factor value: the model
\* file of its winner and the whole two-line record of its winner.
CompletePair(i) ==
    /\ ExpectedModelPath(i) \in DOMAIN fs
    /\ ExpectedHparamsPath(i) \in DOMAIN fs
    /\ LET w == WinnerOfFactor(i)
       IN /\ w.err = "none"
          /\ fs[ExpectedModelPath(i)] = ModelFile(w.best_dict.model)
          /\ fs[ExpectedHparamsPath(i)] =
                save_hyperparams_and_metrics(w.best_dict.hparams, w.best_dict.info)

\* Both lines of the file are a beginning of the lines of the record of the
\* i-th factor value, the second line begun only once the first is whole.
IsPrefixOfRecord(file, i) ==
    LET w == WinnerOfFactor(i)
        whole == save_hyperparams_and_metrics(w.best_dict.hparams, w.best_dict.info)
        wh == Flat(whole.header)
        wc == Flat(whole.content)
        h == Flat(file.header)
        c == Flat(file.content)
    IN /\ Len(h) <= Len(wh)
       /\ h = SubSeq(wh, 1, Len(h))
       /\ Len(c) <= Len(wc)
       /\ c = SubSeq(wc, 1, Len(c))
       /\ c # "" => h = wh

NothingOf(i) ==
    /\ ExpectedModelPath(i) \notin DOMAIN fs
    /\ ExpectedHparamsPath(i) \notin DOMAIN fs

\* The searches entered are those of the first m factor values of the grid,
\* in grid order; whenever the search of f_m has been entered, the run has
\* written the model file and then the artifact of each of f_1 .. f_(m-1), in
\* that order, followed by at most the files of f_m, and nothing of a later
\* factor.
FactorOrder ==
    LET m == Len(FactorSearches)
    IN /\ m = 0 => StageTwoWrites = <<>>
       /\ m >= 1 =>
            /\ m <= Len(GridFactors)
            /\ \A i \in 1..m : FactorSearches[i].f = GridFactors[i]
            /\ StageTwoWrites \in
                  {ExpectedPairs(m - 1),
                   ExpectedPairs(m - 1) \o <<ExpectedModelPath(m)>>,
                   ExpectedPairs(m)}
            /\ pc = "Stage2SaveModel" => StageTwoWrites = ExpectedPairs(m - 1)
            /\ pc = "Stage2SaveHparams" =>
                  StageTwoWrites = ExpectedPairs(m - 1) \o <<ExpectedModelPath(m)>>

StageTwoFailed == pc = "Error" /\ Len(FactorSearches) >= 1

\* C19 (as claimed): factor values are searched in grid order, both files of
\* f_i are written before any trial of f_(i+1) starts, and when the search or
\* a save of f_j has failed the directory holds the complete pairs of exactly
\* f_1 .. f_(j-1) and nothing of a later factor.
C19_AsClaimed ==
    /\ FactorOrder
    /\ StageTwoFailed =>
          LET j == Len(FactorSearches)
          IN /\ \A i \in 1..Len(GridFactors) : CompletePair(i) <=> i < j
             /\ \A i \in (j + 1)..Len(GridFactors) : NothingOf(i)

\* C19 (amended): factor values are searched in grid order and both files of
\* f_i are written before any trial of f_(i+1) starts; when the search or a
\* save of f_j has failed on a grid of pairwise distinct factor values, the
\* directory holds the complete pairs of f_1 .. f_(j-1) and nothing of a
\* later factor, and of f_j nothing, or its model file alone, or its model
\* file with a prefix of its artifact, which may be the whole record.
C19_FactorOrder ==
    /\ FactorOrder
    /\ (StageTwoFailed /\ Cardinality(DistinctFactors) = Len(GridFactors)) =>
          LET j == Len(FactorSearches)
          IN /\ \A i \in 1..(j - 1) : CompletePair(i)
             /\ \A i \in (j + 1)..Len(GridFactors) : NothingOf(i)
             /\ ExpectedHparamsPath(j) \in DOMAIN fs =>
                   /\ ExpectedModelPath(j) \in DOMAIN fs
                   /\ fs[ExpectedModelPath(j)].kind = "model"
                   /\ fs[ExpectedHparamsPath(j)].kind = "hparams"
                   /\ IsPrefixOfRecord(fs[ExpectedHparamsPath(j)], j)

C19_Witness ==
    /\ StageTwoFailed
    /\ err = "PersistenceFailure"
    /\ Len(FactorSearches) = 2
    /\ Cardinality(DistinctFactors) = Len(GridFactors)
    /\ CompletePair(1)
    /\ writes[Len(writes)] = ExpectedHparamsPath(2)
    /\ ~CompletePair(2)
    /\ Split(fs[ExpectedHparamsPath(2)].header)[1] = "fact"

====
